---- MODULE Spec2Model ----
(***************************************************************************)
(* A model of rust-htop (src/src/main.rs): the terminal set-up of main,    *)
(* its event loop (input poll, refresh check, draw) and the two helpers    *)
(* sort_processes and move_selection.                                      *)
(*                                                                         *)
(* Strings are sequences of byte codes ("cm" is <<99, 109>>), so that      *)
(* to_lowercase, contains and the byte-wise String ordering are computed.  *)
(* An Option is a sequence of length 0 (None) or 1 (Some).                 *)
(***************************************************************************)
EXTENDS Integers, Sequences, FiniteSets, TLC

VARIABLES
    pc,            \* position of main: a statement about to run, or how main ended
    raw_mode,      \* the terminal is in raw input mode
    alt_screen,    \* the terminal shows the alternate screen
    config_src,    \* what reading and parsing config.toml gave (line 67)
    config,        \* the Config value handed to App::new, <<>> once moved
    search_query,  \* app.search_query
    searching,     \* app.searching
    sort_by,       \* app.sort_by
    descending,    \* app.descending
    selected,      \* app.table_state.selected(): <<>> or <<index>>
    refresh_rate,  \* app.refresh_rate, in ms
    last_updated,  \* app.last_updated
    snapshot,      \* app.sys.processes().values(), in iteration order
    now,           \* the monotonic clock read by Instant::now(), in ms
    key,           \* the key event of this iteration (the binding of line 76)
    old,           \* the session fields as they were when this iteration began
    frame          \* the rows of the last completed draw: <<>> or <<rows>>

vars == <<pc, raw_mode, alt_screen, config_src, config, search_query, searching,
          sort_by, descending, selected, refresh_rate, last_updated, snapshot,
          now, key, old, frame>>

(***************************************************************************)
(* Bounds of the model.                                                    *)
(***************************************************************************)
MaxQuery == 2
MaxTime == 1000

(***************************************************************************)
(* usize and isize.  The target has 64-bit words; TLC's integers have 32,  *)
(* so the model keeps the two's-complement arithmetic at a width of        *)
(* UsizeBits: -1 as usize is the largest usize at either width.            *)
(***************************************************************************)
UsizeBits == 16
UsizeMod == 2 ^ UsizeBits
UsizeMax == UsizeMod - 1

\* `v as isize` for a usize v
AsIsize(v) == IF v >= UsizeMod \div 2 THEN v - UsizeMod ELSE v

\* `i as usize` for an isize i
AsUsize(i) == i % UsizeMod

Max(a, b) == IF a >= b THEN a ELSE b
Min(a, b) == IF a <= b THEN a ELSE b

None == <<>>
Some(x) == <<x>>
UnwrapOr(o, d) == IF o = None THEN d ELSE o[1]

(***************************************************************************)
(* Characters and key events.                                              *)
(***************************************************************************)
ChQ == 113
ChSlash == 47
ChC == 99
ChM == 109
ChN == 110
ChR == 114

Char(c) == [code |-> "Char", c |-> c]
Esc == [code |-> "Esc", c |-> 0]
Backspace == [code |-> "Backspace", c |-> 0]
Up == [code |-> "Up", c |-> 0]
Down == [code |-> "Down", c |-> 0]
Enter == [code |-> "Enter", c |-> 0]
NoKey == [code |-> "None", c |-> 0]

\* the characters the keyboard of the model can send
KeyChars == {ChQ, ChSlash, ChC, ChM, ChN, ChR}

KeyCodes == {Char(c) : c \in KeyChars} \cup {Esc, Backspace, Up, Down, Enter}

(***************************************************************************)
(* Process records (struct ProcInfo) and the snapshots sysinfo can give.   *)
(* cpu is an f32: a number, or NaN.                                        *)
(***************************************************************************)
NaN == -1

ProcInfo(pid, name, cpu, mem) == [pid |-> pid, name |-> name, cpu |-> cpu, mem |-> mem]

P1 == ProcInfo(1, <<99, 109>>, 5, 100)       \* "cm"
P2 == ProcInfo(2, <<67, 110>>, 5, 50)        \* "Cn"
P3 == ProcInfo(12, <<114>>, 2, 200)          \* "r"
P4 == ProcInfo(3, <<110, 114>>, NaN, 50)     \* "nr", cpu usage NaN

\* the process tables the metrics provider returns in the event loop
Snapshots == {<<>>, <<P1, P2, P3>>, <<P3, P1>>, <<P2, P4>>}

(***************************************************************************)
(* The search filter of the draw closure (lines 135-139).                  *)
(***************************************************************************)
\* char::to_lowercase on the ASCII range
LowerChar(c) == IF c >= 65 /\ c <= 90 THEN c + 32 ELSE c

\* str::to_lowercase
ToLowercase(s) == [i \in 1..Len(s) |-> LowerChar(s[i])]

\* str::contains with a string pattern
Contains(hay, needle) ==
    \E i \in 0..(Len(hay) - Len(needle)) :
        SubSeq(hay, i + 1, i + Len(needle)) = needle

RECURSIVE PidToString(_)
\* Pid::to_string: the decimal digits
PidToString(n) ==
    IF n < 10 THEN <<48 + n>>
    ELSE PidToString(n \div 10) \o <<48 + (n % 10)>>

\* RetainPred without to_lowercase on the name
RetainPred_CaseSensitive(p, query) ==
    \/ Contains(p.name, query)
    \/ Contains(PidToString(p.pid), query)

\* the closure of processes.retain (line 138); query is already lower-cased
RetainPred(p, query) ==
    \/ Contains(ToLowercase(p.name), query)
    \/ Contains(PidToString(p.pid), query)

\* ApplyFilter with the test of line 136 inverted
ApplyFilter_Inverted(procs, q) ==
    IF q = <<>>
    THEN SelectSeq(procs, LAMBDA p : FALSE)
    ELSE procs

\* lines 136-139: filter only when the query is not empty
ApplyFilter(procs, q) ==
    IF q # <<>>
    THEN LET query == ToLowercase(q)
         IN  SelectSeq(procs, LAMBDA p : RetainPred(p, query))
    ELSE procs

(***************************************************************************)
(* sort_processes (lines 174-183).  slice::sort_by is a stable sort; on    *)
(* short slices it is an insertion sort.  A comparator that panics ends    *)
(* the sort: the result records that instead of rows.                      *)
(***************************************************************************)
RECURSIVE StrCmp(_, _)
\* String::cmp: byte-wise lexicographic
StrCmp(a, b) ==
    IF a = <<>> /\ b = <<>> THEN "Equal"
    ELSE IF a = <<>> THEN "Less"
    ELSE IF b = <<>> THEN "Greater"
    ELSE IF Head(a) < Head(b) THEN "Less"
    ELSE IF Head(a) > Head(b) THEN "Greater"
    ELSE StrCmp(Tail(a), Tail(b))

IntCmp(a, b) == IF a < b THEN "Less" ELSE IF a > b THEN "Greater" ELSE "Equal"

\* f32::partial_cmp: None when either side is NaN
PartialCmp(a, b) == IF a = NaN \/ b = NaN THEN None ELSE Some(IntCmp(a, b))

\* the comparator closures of lines 176-178; "Panic" is unwrap() on None
Compare(sb, a, b) ==
    CASE sb = "Cpu" -> LET o == PartialCmp(a.cpu, b.cpu)
                       IN  IF o = None THEN "Panic" ELSE o[1]
      [] sb = "Mem" -> IntCmp(a.mem, b.mem)
      [] sb = "Name" -> StrCmp(a.name, b.name)

Sorted(rows) == [panicked |-> FALSE, rows |-> rows]
Unwound == [panicked |-> TRUE, rows |-> <<>>]

RECURSIVE InsertTail_Unstable(_, _, _)
\* InsertTail moving x left past equal rows too: an unstable sort
InsertTail_Unstable(sb, rows, x) ==
    IF rows = <<>> THEN Sorted(<<x>>)
    ELSE LET c == Compare(sb, x, rows[Len(rows)])
         IN  IF c = "Panic" THEN Unwound
             ELSE IF c = "Less" \/ c = "Equal"
             THEN LET r == InsertTail_Unstable(sb, SubSeq(rows, 1, Len(rows) - 1), x)
                  IN  IF r.panicked THEN Unwound
                      ELSE Sorted(Append(r.rows, rows[Len(rows)]))
             ELSE Sorted(Append(rows, x))

RECURSIVE InsertTail(_, _, _)
\* insert x into the sorted rows: it moves left past every row it is less than
InsertTail(sb, rows, x) ==
    IF rows = <<>> THEN Sorted(<<x>>)
    ELSE LET c == Compare(sb, x, rows[Len(rows)])
         IN  IF c = "Panic" THEN Unwound
             ELSE IF c = "Less"
             THEN LET r == InsertTail(sb, SubSeq(rows, 1, Len(rows) - 1), x)
                  IN  IF r.panicked THEN Unwound
                      ELSE Sorted(Append(r.rows, rows[Len(rows)]))
             ELSE Sorted(Append(rows, x))

RECURSIVE SortBy(_, _)
\* slice::sort_by with the comparator of the sort field
SortBy(sb, procs) ==
    IF procs = <<>> THEN Sorted(<<>>)
    ELSE LET r == SortBy(sb, SubSeq(procs, 1, Len(procs) - 1))
         IN  IF r.panicked THEN Unwound
             ELSE InsertTail(sb, r.rows, procs[Len(procs)])

\* Vec::reverse
Reverse(s) == [i \in 1..Len(s) |-> s[Len(s) + 1 - i]]

sort_processes(sb, desc, procs) ==
    LET r == SortBy(sb, procs)
    IN  IF r.panicked THEN Unwound
        ELSE IF desc THEN Sorted(Reverse(r.rows)) ELSE r

\* the rows the draw closure builds (lines 127-152)
ComputeView(procs, q, sb, desc) == sort_processes(sb, desc, ApplyFilter(procs, q))

(***************************************************************************)
(* move_selection (lines 185-189).  len is the length of the process       *)
(* table, app.sys.processes().len().                                       *)
(***************************************************************************)
move_selection(sel, len, delta) ==
    LET i == AsIsize(UnwrapOr(sel, 0)) + delta
    IN  Some(AsUsize(Min(Max(i, 0), len - 1)))

(***************************************************************************)
(* Configuration (lines 67-70) and App::new (lines 41-57).                 *)
(***************************************************************************)
DefaultRefreshRate == 1000
PollTimeoutMs == 100

Config(rate, sort) == [refresh_rate |-> rate, default_sort |-> sort]

NotRead == [kind |-> "NotRead", refresh_rate |-> 0, default_sort |-> ""]
Missing == [kind |-> "Missing", refresh_rate |-> 0, default_sort |-> ""]
Malformed == [kind |-> "Malformed", refresh_rate |-> 0, default_sort |-> ""]
Parsed(rate, sort) == [kind |-> "Parsed", refresh_rate |-> rate, default_sort |-> sort]

\* what config.toml can hold when main reads it
ConfigSources ==
    {Missing, Malformed, Parsed(0, "mem"), Parsed(2000, "name"), Parsed(2000, "cpu"),
     Parsed(0, "top")}

\* LoadedConfig taking only default_sort from a parsed file
LoadedConfig_DefaultRate(f) ==
    IF f.kind = "Parsed" THEN Config(DefaultRefreshRate, f.default_sort)
    ELSE Config(DefaultRefreshRate, "cpu")

\* toml::from_str(&read_to_string(..).unwrap_or_default()).unwrap_or(Config {..})
LoadedConfig(f) ==
    IF f.kind = "Parsed" THEN Config(f.refresh_rate, f.default_sort)
    ELSE Config(DefaultRefreshRate, "cpu")

\* the match of lines 42-46
DefaultSort(s) ==
    CASE s = "mem" -> "Mem"
      [] s = "name" -> "Name"
      [] OTHER -> "Cpu"

\* the time that passes between two polls, in ms
Delays == {0, 1000}

Session ==
    [search_query |-> search_query, searching |-> searching, sort_by |-> sort_by,
     descending |-> descending, selected |-> selected]

Init ==
    /\ pc = "enable_raw"
    /\ raw_mode = FALSE
    /\ alt_screen = FALSE
    /\ config_src = NotRead
    /\ config = None
    /\ search_query = <<>>
    /\ searching = FALSE
    /\ sort_by = "Cpu"
    /\ descending = TRUE
    /\ selected = None
    /\ refresh_rate = DefaultRefreshRate
    /\ last_updated = 0
    /\ snapshot = <<>>
    /\ now = 0
    /\ key = NoKey
    /\ old = [search_query |-> <<>>, searching |-> FALSE, sort_by |-> "Cpu",
              descending |-> TRUE, selected |-> None]
    /\ frame = None

appVars == <<search_query, searching, sort_by, descending, selected, refresh_rate,
             last_updated, snapshot>>

(***************************************************************************)
(* Set-up of main (lines 61-72).  Each `?` returns the error to the caller.*)
(***************************************************************************)
EnableRawMode ==
    /\ pc = "enable_raw"
    /\ \/ raw_mode' = TRUE /\ pc' = "enter_alt"
       \/ raw_mode' = raw_mode /\ pc' = "failed_setup"
    /\ UNCHANGED <<alt_screen, config_src, config, appVars, now, key, old, frame>>

EnterAlternateScreen ==
    /\ pc = "enter_alt"
    /\ \/ alt_screen' = TRUE /\ pc' = "terminal_new"
       \/ alt_screen' = alt_screen /\ pc' = "failed_setup"
    /\ UNCHANGED <<raw_mode, config_src, config, appVars, now, key, old, frame>>

TerminalNew ==
    /\ pc = "terminal_new"
    /\ \/ pc' = "load_config"
       \/ pc' = "failed_setup"
    /\ UNCHANGED <<raw_mode, alt_screen, config_src, config, appVars, now, key, old, frame>>

LoadConfig ==
    /\ pc = "load_config"
    /\ \E f \in ConfigSources :
          /\ config_src' = f
          /\ config' = Some(LoadedConfig(f))
    /\ pc' = "app_new"
    /\ UNCHANGED <<raw_mode, alt_screen, appVars, now, key, old, frame>>

AppNew ==
    /\ pc = "app_new"
    /\ sort_by' = DefaultSort(config[1].default_sort)
    /\ snapshot' \in Snapshots
    /\ last_updated' = now
    /\ refresh_rate' = config[1].refresh_rate
    /\ search_query' = <<>>
    /\ searching' = FALSE
    /\ descending' = TRUE
    /\ selected' = None
    /\ config' = None
    /\ config_src' = NotRead
    /\ old' = [search_query |-> <<>>, searching |-> FALSE, sort_by |-> sort_by',
               descending |-> TRUE, selected |-> None]
    /\ pc' = "poll"
    /\ UNCHANGED <<raw_mode, alt_screen, now, key, frame>>

(***************************************************************************)
(* The event loop: input (lines 75-98).                                    *)
(***************************************************************************)
\* MatchArm with the guard `if app.searching` of line 87 left out
MatchArm_Unguarded(k, in_search) ==
    IF k = Char(ChQ) THEN "Quit"
    ELSE IF k = Char(ChSlash) THEN "OpenSearch"
    ELSE IF k = Esc THEN "Cancel"
    ELSE IF k.code = "Char" THEN "Push"
    ELSE IF k = Backspace /\ in_search THEN "Pop"
    ELSE IF k = Up THEN "Up"
    ELSE IF k = Down THEN "Down"
    ELSE "Ignore"

\* MatchArm with the sort and toggle arms moved above the search arms
MatchArm_SortFirst(k, in_search) ==
    IF k = Char(ChQ) THEN "Quit"
    ELSE IF k = Char(ChSlash) THEN "OpenSearch"
    ELSE IF k = Esc THEN "Cancel"
    ELSE IF k = Char(ChC) THEN "SortCpu"
    ELSE IF k = Char(ChM) THEN "SortMem"
    ELSE IF k = Char(ChN) THEN "SortName"
    ELSE IF k = Char(ChR) THEN "Toggle"
    ELSE IF k.code = "Char" /\ in_search THEN "Push"
    ELSE IF k = Backspace /\ in_search THEN "Pop"
    ELSE IF k = Up THEN "Up"
    ELSE IF k = Down THEN "Down"
    ELSE "Ignore"

\* MatchArm with the search arms moved above the quit arm
MatchArm_SearchFirst(k, in_search) ==
    IF k.code = "Char" /\ in_search /\ k # Char(ChSlash) THEN "Push"
    ELSE IF k = Backspace /\ in_search THEN "Pop"
    ELSE IF k = Char(ChQ) THEN "Quit"
    ELSE IF k = Char(ChSlash) THEN "OpenSearch"
    ELSE IF k = Esc THEN "Cancel"
    ELSE IF k = Char(ChC) THEN "SortCpu"
    ELSE IF k = Char(ChM) THEN "SortMem"
    ELSE IF k = Char(ChN) THEN "SortName"
    ELSE IF k = Char(ChR) THEN "Toggle"
    ELSE IF k = Up THEN "Up"
    ELSE IF k = Down THEN "Down"
    ELSE "Ignore"

\* MatchArm with the search arms moved above the open-search arm
MatchArm_SlashTyped(k, in_search) ==
    IF k = Char(ChQ) THEN "Quit"
    ELSE IF k.code = "Char" /\ in_search THEN "Push"
    ELSE IF k = Char(ChSlash) THEN "OpenSearch"
    ELSE IF k = Esc THEN "Cancel"
    ELSE IF k = Backspace /\ in_search THEN "Pop"
    ELSE IF k = Char(ChC) THEN "SortCpu"
    ELSE IF k = Char(ChM) THEN "SortMem"
    ELSE IF k = Char(ChN) THEN "SortName"
    ELSE IF k = Char(ChR) THEN "Toggle"
    ELSE IF k = Up THEN "Up"
    ELSE IF k = Down THEN "Down"
    ELSE "Ignore"

\* the first arm of the match of lines 77-96 that takes key code k
MatchArm(k, in_search) ==
    IF k = Char(ChQ) THEN "Quit"
    ELSE IF k = Char(ChSlash) THEN "OpenSearch"
    ELSE IF k = Esc THEN "Cancel"
    ELSE IF k.code = "Char" /\ in_search THEN "Push"
    ELSE IF k = Backspace /\ in_search THEN "Pop"
    ELSE IF k = Char(ChC) THEN "SortCpu"
    ELSE IF k = Char(ChM) THEN "SortMem"
    ELSE IF k = Char(ChN) THEN "SortName"
    ELSE IF k = Char(ChR) THEN "Toggle"
    ELSE IF k = Up THEN "Up"
    ELSE IF k = Down THEN "Down"
    ELSE "Ignore"

\* line 78
KeyQuit ==
    /\ pc' = "disable_raw"
    /\ UNCHANGED <<search_query, searching, sort_by, descending, selected>>

\* KeyOpenSearch resetting the sort order as well
KeyOpenSearch_ResetsOrder ==
    /\ searching' = TRUE
    /\ search_query' = <<>>
    /\ descending' = TRUE
    /\ pc' = "refresh"
    /\ UNCHANGED <<sort_by, selected>>

\* lines 79-82
KeyOpenSearch ==
    /\ searching' = TRUE
    /\ search_query' = <<>>
    /\ pc' = "refresh"
    /\ UNCHANGED <<sort_by, descending, selected>>

\* KeyCancel without search_query.clear()
KeyCancel_KeepsQuery ==
    /\ searching' = FALSE
    /\ search_query' = search_query
    /\ pc' = "refresh"
    /\ UNCHANGED <<sort_by, descending, selected>>

\* KeyCancel dropping the selection as well
KeyCancel_DropsSelection ==
    /\ searching' = FALSE
    /\ search_query' = <<>>
    /\ selected' = None
    /\ pc' = "refresh"
    /\ UNCHANGED <<sort_by, descending>>

\* lines 83-86
KeyCancel ==
    /\ searching' = FALSE
    /\ search_query' = <<>>
    /\ pc' = "refresh"
    /\ UNCHANGED <<sort_by, descending, selected>>

\* line 87; the model stops typing at MaxQuery characters
KeyPush(c) ==
    /\ Len(search_query) < MaxQuery
    /\ search_query' = Append(search_query, c)
    /\ pc' = "refresh"
    /\ UNCHANGED <<searching, sort_by, descending, selected>>

\* KeyPop clearing the whole query
KeyPop_Clears ==
    /\ search_query' = <<>>
    /\ pc' = "refresh"
    /\ UNCHANGED <<searching, sort_by, descending, selected>>

\* line 88: String::pop, nothing on the empty string
KeyPop ==
    /\ search_query' = IF search_query = <<>> THEN <<>>
                       ELSE SubSeq(search_query, 1, Len(search_query) - 1)
    /\ pc' = "refresh"
    /\ UNCHANGED <<searching, sort_by, descending, selected>>

\* lines 89-91
KeySort(field) ==
    /\ sort_by' = field
    /\ pc' = "refresh"
    /\ UNCHANGED <<search_query, searching, descending, selected>>

\* line 92
KeyToggle ==
    /\ descending' = ~descending
    /\ pc' = "refresh"
    /\ UNCHANGED <<search_query, searching, sort_by, selected>>

\* lines 93-94
KeyMove(delta) ==
    /\ selected' = move_selection(selected, Len(snapshot), delta)
    /\ pc' = "refresh"
    /\ UNCHANGED <<search_query, searching, sort_by, descending>>

\* line 95
KeyIgnore ==
    /\ pc' = "refresh"
    /\ UNCHANGED <<search_query, searching, sort_by, descending, selected>>

\* event::poll gave true and event::read gave the key event k
HandleKey ==
    /\ pc = "poll"
    /\ \E k \in KeyCodes, d \in Delays :
          /\ now + d <= MaxTime
          /\ now' = now + d
          /\ key' = k
          /\ old' = Session
          /\ LET arm == MatchArm(k, searching)
             IN  \/ arm = "Quit" /\ KeyQuit
                 \/ arm = "OpenSearch" /\ KeyOpenSearch
                 \/ arm = "Cancel" /\ KeyCancel
                 \/ arm = "Push" /\ KeyPush(k.c)
                 \/ arm = "Pop" /\ KeyPop
                 \/ arm = "SortCpu" /\ KeySort("Cpu")
                 \/ arm = "SortMem" /\ KeySort("Mem")
                 \/ arm = "SortName" /\ KeySort("Name")
                 \/ arm = "Toggle" /\ KeyToggle
                 \/ arm = "Up" /\ KeyMove(-1)
                 \/ arm = "Down" /\ KeyMove(1)
                 \/ arm = "Ignore" /\ KeyIgnore
    /\ UNCHANGED <<raw_mode, alt_screen, config_src, config, refresh_rate,
                   last_updated, snapshot, frame>>

\* event::poll gave false: no event within its timeout (line 75)
PollTimesOut ==
    /\ pc = "poll"
    /\ \E d \in Delays :
          /\ d >= PollTimeoutMs
          /\ now + d <= MaxTime
          /\ now' = now + d
    /\ key' = NoKey
    /\ old' = Session
    /\ pc' = "refresh"
    /\ UNCHANGED <<raw_mode, alt_screen, config_src, config, appVars, frame>>

\* event::read gave an event that is no key event: the `if let` of line 76
\* does not match
OtherEvent ==
    /\ pc = "poll"
    /\ \E d \in Delays :
          /\ now + d <= MaxTime
          /\ now' = now + d
    /\ key' = NoKey
    /\ old' = Session
    /\ pc' = "refresh"
    /\ UNCHANGED <<raw_mode, alt_screen, config_src, config, appVars, frame>>

\* the `?` of line 75 or of line 76: the error is returned from main
InputFails ==
    /\ pc = "poll"
    /\ pc' = "failed_loop"
    /\ UNCHANGED <<raw_mode, alt_screen, config_src, config, appVars, now, key, old, frame>>

(***************************************************************************)
(* The event loop: refresh check (lines 100-103).                          *)
(***************************************************************************)
\* RefreshCheck with `>` for `>=`
RefreshCheck_Strict ==
    /\ pc = "refresh"
    /\ IF now - last_updated > refresh_rate
       THEN /\ snapshot' \in Snapshots
            /\ last_updated' = now
       ELSE UNCHANGED <<snapshot, last_updated>>
    /\ key' = NoKey
    /\ old' = Session
    /\ pc' = "draw"
    /\ UNCHANGED <<raw_mode, alt_screen, config_src, config, search_query, searching,
                   sort_by, descending, selected, refresh_rate, now, frame>>

\* RefreshCheck going back to the poll without a draw when no refresh is due
RefreshCheck_SkipsDraw ==
    /\ pc = "refresh"
    /\ IF now - last_updated >= refresh_rate
       THEN /\ snapshot' \in Snapshots
            /\ last_updated' = now
            /\ pc' = "draw"
       ELSE /\ UNCHANGED <<snapshot, last_updated>>
            /\ pc' = "poll"
    /\ key' = NoKey
    /\ old' = Session
    /\ UNCHANGED <<raw_mode, alt_screen, config_src, config, search_query, searching,
                   sort_by, descending, selected, refresh_rate, now, frame>>

RefreshCheck ==
    /\ pc = "refresh"
    /\ IF now - last_updated >= refresh_rate
       THEN /\ snapshot' \in Snapshots
            /\ last_updated' = now
       ELSE UNCHANGED <<snapshot, last_updated>>
    /\ key' = NoKey
    /\ old' = Session
    /\ pc' = "draw"
    /\ UNCHANGED <<raw_mode, alt_screen, config_src, config, search_query, searching,
                   sort_by, descending, selected, refresh_rate, now, frame>>

(***************************************************************************)
(* The event loop: terminal.draw (lines 105-166).  The table widget reads  *)
(* table_state.selected and leaves it as it is.                            *)
(***************************************************************************)
Draw ==
    /\ pc = "draw"
    /\ LET v == ComputeView(snapshot, search_query, sort_by, descending)
       IN  IF v.panicked
           THEN /\ pc' = "panicked"
                /\ frame' = frame
           ELSE \/ /\ pc' = "poll"
                   /\ frame' = Some(v.rows)
                \/ /\ pc' = "failed_loop"
                   /\ frame' = frame
    /\ UNCHANGED <<raw_mode, alt_screen, config_src, config, appVars, now, key, old>>

(***************************************************************************)
(* After the loop (lines 169-171).                                         *)
(***************************************************************************)
DisableRawMode ==
    /\ pc = "disable_raw"
    /\ \/ raw_mode' = FALSE /\ pc' = "leave_alt"
       \/ raw_mode' = raw_mode /\ pc' = "failed_cleanup"
    /\ UNCHANGED <<alt_screen, config_src, config, appVars, now, key, old, frame>>

LeaveAlternateScreen ==
    /\ pc = "leave_alt"
    /\ \/ alt_screen' = FALSE /\ pc' = "exited"
       \/ alt_screen' = alt_screen /\ pc' = "failed_cleanup"
    /\ UNCHANGED <<raw_mode, config_src, config, appVars, now, key, old, frame>>

Next ==
    \/ EnableRawMode
    \/ EnterAlternateScreen
    \/ TerminalNew
    \/ LoadConfig
    \/ AppNew
    \/ HandleKey
    \/ PollTimesOut
    \/ OtherEvent
    \/ InputFails
    \/ RefreshCheck
    \/ Draw
    \/ DisableRawMode
    \/ LeaveAlternateScreen

Spec == Init /\ [][Next]_vars

(***************************************************************************)
(* The view functions on their own: the draw closure applied once to a     *)
(* process table, a query and a sort mode drawn from bounded sets.         *)
(***************************************************************************)
MaxProcs == 3

R1 == ProcInfo(1, <<98, 97, 115, 104>>, 5, 100)             \* "bash"
R2 == ProcInfo(2, <<67, 104, 114, 111, 109, 101>>, 5, 50)   \* "Chrome"
R3 == ProcInfo(42, <<105, 110, 105, 116>>, 2, 200)          \* "init"
R4 == ProcInfo(12, <<115, 104>>, NaN, 50)                   \* "sh", cpu usage NaN
R5 == ProcInfo(7, <<115, 104>>, 2, 200)                     \* "sh"

FnProcs == {R1, R2, R3, R4, R5}

\* the process tables of at most MaxProcs processes, in every iteration order
FnSnapshots ==
    {s \in UNION {[1..n -> FnProcs] : n \in 0..MaxProcs} :
        \A i, j \in 1..Len(s) : i # j => s[i].pid # s[j].pid}

\* "", "ch", "CH", "sh", "Sh", "h", "1", "2", "42", "x", "i1"
FnQueries ==
    {<<>>, <<99, 104>>, <<67, 72>>, <<115, 104>>, <<83, 104>>, <<104>>, <<49>>,
     <<50>>, <<52, 50>>, <<120>>, <<105, 49>>}

InitFn ==
    /\ pc = "fn_draw"
    /\ raw_mode = TRUE
    /\ alt_screen = TRUE
    /\ config_src = NotRead
    /\ config = None
    /\ search_query \in FnQueries
    /\ searching \in BOOLEAN
    /\ search_query # <<>> => searching
    /\ sort_by \in {"Cpu", "Mem", "Name"}
    /\ descending \in BOOLEAN
    /\ selected = None
    /\ refresh_rate = DefaultRefreshRate
    /\ last_updated = 0
    /\ snapshot \in FnSnapshots
    /\ now = 0
    /\ key = NoKey
    /\ old = Session
    /\ frame = None

\* the closure of terminal.draw, lines 127-152
FnDraw ==
    /\ pc = "fn_draw"
    /\ LET v == ComputeView(snapshot, search_query, sort_by, descending)
       IN  IF v.panicked
           THEN /\ pc' = "fn_panicked"
                /\ frame' = frame
           ELSE /\ pc' = "fn_drawn"
                /\ frame' = Some(v.rows)
    /\ UNCHANGED <<raw_mode, alt_screen, config_src, config, appVars, now, key, old>>

NextFn == FnDraw

SpecFn == InitFn /\ [][NextFn]_vars

\* the quit path ends: nothing outside the program keeps it from running
LiveSpec == Spec /\ WF_vars(DisableRawMode) /\ WF_vars(LeaveAlternateScreen)

(***************************************************************************)
(* Properties.                                                             *)
(***************************************************************************)
Rows == frame[1]

\* a frame has just been drawn from the present session and snapshot
Rendered == pc = "poll" /\ frame # None

\* main has returned or unwound after the loop was entered
LoopLeft == pc \in {"exited", "failed_loop", "panicked", "failed_cleanup"}

AfterLoop == pc \in {"disable_raw", "leave_alt", "exited", "failed_cleanup"}

\* the key event k has just been handled
Handled(k) == pc = "refresh" /\ key = k

\* C1: at every render step the selection is None only if the displayed rows
\* are empty, and a present selection is an index of the displayed rows.
SelectionWithinView ==
    Rendered =>
        /\ selected = None => Len(Rows) = 0
        /\ selected # None => selected[1] \in 0..(Len(Rows) - 1)

\* C2: however the event loop is left, raw mode is off and the alternate
\* screen is left when main hands control back.
RestoredOnExit == LoopLeft => (~raw_mode /\ ~alt_screen)

\* C3: the query is non-empty only while searching.
QueryOnlyWhileSearching == ~searching => search_query = <<>>

\* C3 witness: a character has just been typed into the query
TypedWhileSearching ==
    /\ pc = "refresh"
    /\ key.code = "Char"
    /\ searching
    /\ search_query = Append(old.search_query, key.c)

SortKeys == {Char(ChC), Char(ChM), Char(ChN), Char(ChR)}

\* what the global command of a sort or toggle key makes of the old session
GlobalCommandDone ==
    /\ key = Char(ChC) => sort_by = "Cpu" /\ descending = old.descending
    /\ key = Char(ChM) => sort_by = "Mem" /\ descending = old.descending
    /\ key = Char(ChN) => sort_by = "Name" /\ descending = old.descending
    /\ key = Char(ChR) => sort_by = old.sort_by /\ descending = ~old.descending
    /\ search_query = old.search_query

\* C4 as stated: while searching, c / m / n / r runs its global command and
\* is not appended to the query.
SortKeysGlobalInSearch ==
    (pc = "refresh" /\ key \in SortKeys /\ old.searching) => GlobalCommandDone

\* C4 as amended: while searching, c / m / n / r is appended to the query and
\* sort field and order stay; the global command runs only while not searching.
SortKeysTypedInSearch ==
    (pc = "refresh" /\ key \in SortKeys) =>
        IF old.searching
        THEN /\ search_query = Append(old.search_query, key.c)
             /\ sort_by = old.sort_by
             /\ descending = old.descending
        ELSE GlobalCommandDone

\* C4 witness: `c` typed while searching, with the sort field not CPU
SortKeyTyped ==
    /\ pc = "refresh"
    /\ key = Char(ChC)
    /\ old.searching
    /\ sort_by # "Cpu"
    /\ search_query = Append(old.search_query, ChC)

\* C5: a quit key leaves the loop from every session state without touching
\* the session; after that no key is handled; and main then comes to its end.
QuitTerminates ==
    /\ [][(pc = "poll" /\ key' = Char(ChQ)) =>
             (pc' = "disable_raw" /\ Session' = Session)]_vars
    /\ [][AfterLoop => (AfterLoop' /\ key' = key /\ Session' = Session)]_vars
    /\ (pc = "disable_raw") ~> (pc \in {"exited", "failed_cleanup"})

\* C5 witness: quit while searching with a query typed, and main has returned
QuitWhileSearching ==
    /\ pc = "exited"
    /\ key = Char(ChQ)
    /\ searching
    /\ Len(search_query) = 2

\* C6: a cancel leaves the query empty and the search inactive whatever was
\* typed since the search was opened, and they stay so until search is
\* opened again.
SearchRoundTrip ==
    /\ [][(pc = "poll" /\ key' = Esc) => (search_query' = <<>> /\ ~searching')]_vars
    /\ [][(~searching /\ search_query = <<>> /\ key' # Char(ChSlash)) =>
             (~searching' /\ search_query' = <<>>)]_vars

\* C6 witness: search was opened, two characters were typed, then cancel
CancelledAfterTyping ==
    /\ Handled(Esc)
    /\ old.searching
    /\ Len(old.search_query) >= 2
    /\ ~searching
    /\ search_query = <<>>

\* C7: after move-up / move-down the selection is None exactly when the list
\* move_selection clamps against is empty, and otherwise an index of it.
ClampTotal ==
    (Handled(Up) \/ Handled(Down)) =>
        /\ selected = None <=> Len(snapshot) = 0
        /\ Len(snapshot) > 0 => selected[1] \in 0..(Len(snapshot) - 1)

\* two characters that are equal up to the case of an ASCII letter
EqIgnoreCase(a, b) ==
    \/ a = b
    \/ a \in 65..90 /\ b = a + 32
    \/ b \in 65..90 /\ a = b + 32

\* q occurs in the name, case-insensitively
NameHas(name, q) ==
    \E off \in 0..(Len(name) - Len(q)) :
        \A j \in 1..Len(q) : EqIgnoreCase(name[off + j], q[j])

\* the number of decimal digits of n, and the code of its i-th digit
DecLen(n) == CHOOSE k \in 1..10 : n < 10 ^ k /\ (k = 1 \/ n >= 10 ^ (k - 1))
DecDigit(n, i) == 48 + ((n \div (10 ^ (DecLen(n) - i))) % 10)

\* q occurs in the pid written in decimal
PidHas(pid, q) ==
    \E off \in 0..(DecLen(pid) - Len(q)) :
        \A j \in 1..Len(q) : q[j] = DecDigit(pid, off + j)

Matching(q) == {i \in 1..Len(snapshot) : NameHas(snapshot[i].name, q) \/ PidHas(snapshot[i].pid, q)}

\* C8: with a non-empty query the displayed rows are exactly the snapshot
\* records whose name has the query case-insensitively or whose decimal pid
\* has it: each of them once, and no other record.
FilterExact ==
    (pc = "fn_drawn" /\ search_query # <<>>) =>
        /\ \A i \in Matching(search_query) : \E j \in 1..Len(Rows) : Rows[j] = snapshot[i]
        /\ \A j \in 1..Len(Rows) : \E i \in Matching(search_query) : Rows[j] = snapshot[i]
        /\ Len(Rows) = Cardinality(Matching(search_query))

\* C8 witness: "ch" on bash, init, Chrome shows Chrome alone
FilteredToChrome ==
    /\ pc = "fn_drawn"
    /\ search_query = <<99, 104>>
    /\ snapshot = <<R1, R3, R2>>
    /\ Rows = <<R2>>

\* how often x occurs in the sequence s
Count(s, x) == Cardinality({i \in 1..Len(s) : s[i] = x})

SameMultiset(a, b) ==
    /\ Len(a) = Len(b)
    /\ \A i \in 1..Len(a) : Count(a, a[i]) = Count(b, a[i])

\* a <= b in the byte-wise lexicographic order
StrLeq(a, b) ==
    \E k \in 0..Min(Len(a), Len(b)) :
        /\ \A j \in 1..k : a[j] = b[j]
        /\ \/ k = Len(a)
           \/ k < Len(b) /\ a[k + 1] < b[k + 1]

KeyLeq(sb, a, b) ==
    CASE sb = "Cpu" -> a.cpu <= b.cpu
      [] sb = "Mem" -> a.mem <= b.mem
      [] sb = "Name" -> StrLeq(a.name, b.name)

KeyEq(sb, a, b) == KeyLeq(sb, a, b) /\ KeyLeq(sb, b, a)

\* rows follow the sort rule: keys never fall, or never rise when descending
InSortOrder(rows, sb, desc) ==
    \A i \in 1..(Len(rows) - 1) :
        IF desc THEN KeyLeq(sb, rows[i + 1], rows[i]) ELSE KeyLeq(sb, rows[i], rows[i + 1])

\* C9: with the empty query the displayed rows are the whole snapshot (the
\* same multiset) in the order of the sort rule, searching or not.
EmptyQueryShowsAll ==
    (Rendered /\ search_query = <<>>) =>
        /\ SameMultiset(Rows, snapshot)
        /\ InSortOrder(Rows, sort_by, descending)

\* C9 witness: search just opened, nothing typed, three processes drawn
OpenedSearchShowsAll ==
    /\ Rendered
    /\ searching
    /\ search_query = <<>>
    /\ Len(snapshot) = 3
    /\ Len(Rows) = 3

\* the bijections of 1..n
Perms(n) == {f \in [1..n -> 1..n] : \A i, j \in 1..n : i # j => f[i] # f[j]}

\* asc is input sorted by the key of sb, non-decreasing, equal keys in input order
IsStableAscending(asc, input, sb) ==
    /\ Len(asc) = Len(input)
    /\ \E f \in Perms(Len(input)) :
          /\ \A i \in 1..Len(asc) : asc[i] = input[f[i]]
          /\ \A i, j \in 1..Len(asc) :
                i < j => /\ KeyLeq(sb, asc[i], asc[j])
                         /\ KeyEq(sb, asc[i], asc[j]) => f[i] < f[j]

\* C10: sort_processes returns a view of every list whose keys can be
\* compared (all but a CPU sort over a NaN); the ascending view is the stable
\* non-decreasing arrangement of the list, and the descending view is that
\* arrangement read backwards, equal keys in reversed input order.
StableSortThenReverse ==
    LET input == ApplyFilter(snapshot, search_query)
    IN  /\ pc = "fn_panicked" =>
              (sort_by = "Cpu" /\ \E i \in 1..Len(input) : input[i].cpu = NaN)
        /\ pc = "fn_drawn" =>
              LET n == Len(Rows)
                  asc == IF descending THEN [i \in 1..n |-> Rows[n + 1 - i]] ELSE Rows
              IN  IsStableAscending(asc, input, sort_by)

\* C10 witness: cpu 5, 5, 2 descending: the tied pair in reversed input order
TiesReversedWhenDescending ==
    /\ pc = "fn_drawn"
    /\ sort_by = "Cpu"
    /\ descending
    /\ search_query = <<>>
    /\ snapshot = <<R1, R2, R3>>
    /\ Rows = <<R2, R1, R3>>

\* the rows whose cpu is NaN come before (ascending) or after (descending)
\* every other row
NaNRanksLowest(rows, desc) ==
    \A i, j \in 1..Len(rows) :
        (rows[i].cpu = NaN /\ rows[j].cpu # NaN) => IF desc THEN i > j ELSE i < j

\* C11: a CPU sort never aborts the program: over a NaN it still gives a
\* view, with the NaN records at the lowest rank, and the loop goes on.
CpuSortNeverAborts ==
    /\ pc # "panicked"
    /\ (Rendered /\ sort_by = "Cpu") => NaNRanksLowest(Rows, descending)

\* the fields named by C12 change in this step
SortChanges == sort_by' # sort_by \/ descending' # descending

\* C12: sort field and order are left alone by the refresh check, by `/` and
\* by Esc; once the session exists they change only in the step that handles
\* a sort-field or toggle-order key.
SortOnlyBySortKeys ==
    [][/\ pc = "refresh" => ~SortChanges
       /\ (pc = "poll" /\ key' \in {Char(ChSlash), Esc}) => ~SortChanges
       /\ (SortChanges /\ pc # "app_new") => (pc = "poll" /\ key' \in SortKeys)]_vars

\* C12 witness: sort set to Memory ascending by keys, search opened, and a
\* refresh has just fired
SortKeptAcrossRefresh ==
    /\ pc = "draw"
    /\ now > 0
    /\ last_updated = now
    /\ searching
    /\ sort_by = "Mem"
    /\ ~descending

\* C13: on three rows two move-downs from no selection give index 2, and once
\* the query leaves two rows the selection at the next render is 1.
ReclampedAfterFilter ==
    /\ (Handled(Down) /\ Len(snapshot) = 3 /\ old.selected = None) => selected = Some(1)
    /\ (Handled(Down) /\ Len(snapshot) = 3 /\ old.selected = Some(1)) => selected = Some(2)
    /\ (Rendered /\ Len(snapshot) = 3 /\ Len(Rows) = 2 /\ selected \in {Some(0), Some(1), Some(2)}) =>
           selected[1] <= 1

\* C14: loading the configuration always goes on to App::new; a missing or
\* malformed file gives 1000 ms and CPU, a parsed file gives its own rate and
\* the sort field its default_sort names.
ConfigNeverFails ==
    [][/\ pc = "load_config" => pc' = "app_new"
       /\ pc = "app_new" =>
             /\ pc' = "poll"
             /\ IF config_src.kind = "Parsed"
                THEN /\ refresh_rate' = config_src.refresh_rate
                     /\ config_src.default_sort = "cpu" => sort_by' = "Cpu"
                     /\ config_src.default_sort = "mem" => sort_by' = "Mem"
                     /\ config_src.default_sort = "name" => sort_by' = "Name"
                ELSE /\ config_src.kind \in {"Missing", "Malformed"}
                     /\ refresh_rate' = 1000
                     /\ sort_by' = "Cpu"]_vars

\* C14 witness: the session starts from a parsed file, 2000 ms and "name"
StartedFromParsedFile ==
    /\ pc = "poll"
    /\ frame = None
    /\ refresh_rate = 2000
    /\ sort_by = "Name"

\* the time since the last refresh, as line 100 reads it
Elapsed == now - last_updated

\* the fields named by C15 change in this step
RefreshChanges == snapshot' # snapshot \/ last_updated' # last_updated

\* C15: the refresh check refreshes exactly when the elapsed time has
\* reached the refresh rate, and then sets last_updated to the clock; no
\* other step of the loop touches the snapshot or last_updated, so two
\* refreshes are at least the refresh rate apart.
RefreshOnlyWhenDue ==
    /\ [][/\ (pc = "refresh" /\ Elapsed >= refresh_rate) =>
                (last_updated' = now' /\ snapshot' \in Snapshots)
          /\ (pc = "refresh" /\ Elapsed < refresh_rate) => ~RefreshChanges
          /\ (RefreshChanges /\ pc # "app_new") =>
                (pc = "refresh" /\ now' - last_updated >= refresh_rate)]_vars
    /\ [](last_updated <= now)

\* C15 witness: under the default rate a refresh has fired at 1000 ms
RefreshedWhenDue ==
    /\ pc = "draw"
    /\ refresh_rate = 1000
    /\ now = 1000
    /\ last_updated = 1000
    /\ snapshot # <<>>

\* the indices of the snapshot records the query q keeps
Kept(q) == IF q = <<>> THEN 1..Len(snapshot) ELSE Matching(q)

\* C16: an iteration goes input, refresh check, draw, in that order and
\* every time; only the input step changes the session, by one key; and a
\* drawn frame is the view of the snapshot and session as they then are.
IterationOrder ==
    /\ [][/\ pc = "poll" => pc' \in {"refresh", "disable_raw", "failed_loop"}
          /\ pc = "refresh" => pc' = "draw"
          /\ pc = "draw" => (pc' \in {"poll", "failed_loop", "panicked"} /\ snapshot' = snapshot)
          /\ (pc \in {"refresh", "draw"}) => Session' = Session
          /\ (key' # key /\ key' # NoKey) => (pc = "poll" /\ pc' # "poll")
          /\ frame' # frame => (pc = "draw" /\ pc' = "poll")]_vars
    /\ [](Rendered =>
             /\ Len(Rows) = Cardinality(Kept(search_query))
             /\ \A i \in Kept(search_query) : \E j \in 1..Len(Rows) : Rows[j] = snapshot[i]
             /\ InSortOrder(Rows, sort_by, descending))

\* C16 witness: a refresh and a query of this iteration both show in the frame
FrameOfNewSnapshot ==
    /\ Rendered
    /\ now > 0
    /\ last_updated = now
    /\ refresh_rate = 1000
    /\ search_query = <<ChC>>
    /\ Len(snapshot) = 3
    /\ Len(Rows) = 2

\* C17: while searching, a character other than q and / is appended to the
\* query and backspace takes the last character off (nothing off the empty
\* query), so the character typed last is what backspace removes; while not
\* searching, backspace and unrecognized keys leave the session as it was.
SearchEditing ==
    pc = "refresh" =>
        /\ (key.code = "Char" /\ key.c \notin {ChQ, ChSlash} /\ old.searching) =>
               /\ search_query = old.search_query \o <<key.c>>
               /\ [Session EXCEPT !.search_query = old.search_query] = old
        /\ (key = Backspace /\ old.searching) =>
               /\ IF old.search_query = <<>> THEN search_query = <<>>
                  ELSE search_query \o <<old.search_query[Len(old.search_query)]>>
                          = old.search_query
               /\ [Session EXCEPT !.search_query = old.search_query] = old
        /\ (key \in {Backspace, Enter} /\ ~old.searching) => Session = old

\* C17 witness: backspace on a query of two characters
BackspacedOne ==
    /\ Handled(Backspace)
    /\ old.searching
    /\ Len(old.search_query) = 2
    /\ Len(search_query) = 1

\* C18: the query never holds the quit character or the open-search
\* character.
NoCommandCharInQuery ==
    \A i \in 1..Len(search_query) : search_query[i] \notin {ChQ, ChSlash}

\* C18 witness: `/` pressed while searching with a query typed
SlashWhileSearching ==
    /\ Handled(Char(ChSlash))
    /\ old.searching
    /\ old.search_query # <<>>
    /\ search_query = <<>>

\* C19: the stored selection changes only in a step that handles move-up or
\* move-down, and once it is Some it is never None again.
SelectionOnlyByMoves ==
    [][/\ selected' # selected => (pc = "poll" /\ key' \in {Up, Down})
       /\ selected # None => selected' # None]_vars

\* C19 witness: index 2 kept while a refresh shrank the table and a query is
\* typed
SelectionKept ==
    /\ pc = "draw"
    /\ selected = Some(2)
    /\ Len(snapshot) < 3
    /\ search_query # <<>>

====
